---- MODULE Spec2Model ----
(***************************************************************************)
(* Model of src/lambda_function.py: the request handler of the RAG query   *)
(* Lambda, its validators, its sanitiser and its three gateway calls.      *)
(*                                                                         *)
(* Text is a sequence of one-character strings.  Python values that can    *)
(* reach a validator (None, str, int, bool, list, dict) are records        *)
(* [t, n, s]: t the type, n the number / truth value / length, s the text. *)
(***************************************************************************)
EXTENDS Integers, Sequences, FiniteSets, TLC

VARIABLES
    event,          \* handler's argument event (line 215)
    context,        \* handler's argument context (line 215, read on line 312)
    pc,             \* the position in handler()
    calls,          \* the steps handler() has run, in order
    request,        \* the local request (lines 239-247)
    question,       \* the local question (lines 247-255)
    context_docs,   \* the local context_docs (line 260)
    answer,         \* the local answer (line 281)
    response,       \* what handler() returned
    fnIn,           \* the argument of a function exercised on its own
    fnOut,          \* the values it returned, in order
    fnPc            \* how often it has been applied

vars == <<event, context, pc, calls, request, question, context_docs, answer,
          response, fnIn, fnOut, fnPc>>

handlerVars == <<event, context, pc, calls, request, question, context_docs,
                 answer, response>>

fnVars == <<fnIn, fnOut, fnPc>>

(***************************************************************************)
(* Characters and the character classes of Python's re module.             *)
(***************************************************************************)
Lowercase == {"a","b","c","d","e","f","g","h","i","j","k","l","m",
              "n","o","p","q","r","s","t","u","v","w","x","y","z"}

Uppercase == {"A","B","C","D","E","F","G","H","I","J","K","L","M",
              "N","O","P","Q","R","S","T","U","V","W","X","Y","Z"}

Digits == {"0","1","2","3","4","5","6","7","8","9"}

Alnum == Lowercase \cup Uppercase \cup Digits

\* \s of re, and the characters str.strip() removes
WhiteSpace == {" ", "\t", "\n"}

\* \w of re: alphanumeric characters and the underscore
WordChar == Alnum \cup {"_"}

\* the punctuation the second substitution of sanitise_input lists
KeptPunct == {".", "?", "!", ",", "-", "'", "\""}

Min(S) == CHOOSE x \in S : \A y \in S : x <= y

Max(S) == CHOOSE x \in S : \A y \in S : x >= y

Rep(c, n) == [i \in 1..n |-> c]

\* str.strip(): drop leading and trailing whitespace
strip(s) ==
    LET keep == {i \in 1..Len(s) : s[i] \notin WhiteSpace}
    IN  IF keep = {} THEN <<>> ELSE SubSeq(s, Min(keep), Max(keep))

\* re.sub(r'<[^>]*>', '', s): scanning from the left, a '<' that has a '>'
\* somewhere after it starts a match that ends at the first such '>'.
RECURSIVE StripTags(_)
StripTags(s) ==
    IF s = <<>> THEN <<>>
    ELSE LET close == {j \in 2..Len(s) : s[j] = ">"}
         IN  IF Head(s) = "<" /\ close # {}
             THEN StripTags(SubSeq(s, Min(close) + 1, Len(s)))
             ELSE <<Head(s)>> \o StripTags(Tail(s))

\* re.sub(r'[^\w\s\.\?\!\,\-\'\"]', '', s)
KeepChar(c) == c \in WordChar \cup WhiteSpace \cup KeptPunct

StripChars(s) == SelectSeq(s, KeepChar)

\* A sanitiser that trims before it filters (the plausible slip).
SanitiseTrimFirst(text) == StripChars(StripTags(strip(text)))

\* A sanitiser that forgets the final strip().
SanitiseNoTrim(text) == StripChars(StripTags(text))

sanitise_input(text) == strip(StripChars(StripTags(text)))

(***************************************************************************)
(* Python values.                                                          *)
(***************************************************************************)
V(t, n, s) == [t |-> t, n |-> n, s |-> s]

None == V("none", 0, <<>>)

Str(s) == V("str", 0, s)

\* bool(v) of Python: None, "", 0, False, [] and {} are falsy
Truthy(v) ==
    CASE v.t = "none" -> FALSE
      [] v.t = "str"  -> v.s # <<>>
      [] OTHER        -> v.n # 0

\* x or y
Or(x, y) == IF Truthy(x) THEN x ELSE y

UpperSeq == <<"A","B","C","D","E","F","G","H","I","J","K","L","M",
              "N","O","P","Q","R","S","T","U","V","W","X","Y","Z">>

LowerSeq == <<"a","b","c","d","e","f","g","h","i","j","k","l","m",
              "n","o","p","q","r","s","t","u","v","w","x","y","z">>

\* re.IGNORECASE: patterns are matched on the lower-cased text
Lower(c) ==
    IF c \in Uppercase
    THEN LowerSeq[CHOOSE i \in 1..Len(UpperSeq) : UpperSeq[i] = c]
    ELSE c

LowerText(s) == [i \in 1..Len(s) |-> Lower(s[i])]

\* s has p at position i
At(s, p, i) ==
    /\ i >= 1
    /\ i + Len(p) - 1 <= Len(s)
    /\ \A j \in 1..Len(p) : s[i + j - 1] = p[j]

\* re.search of a literal pattern
Contains(s, p) == \E i \in 1..Len(s) : At(s, p, i)

(***************************************************************************)
(* validate_api_key                                                        *)
(***************************************************************************)
KeyMinLen == 20

KeyMaxLen == 50

\* the header names "x-api-key" and "X-Api-Key" of line 149
XApiKeyLower == <<"x","-","a","p","i","-","k","e","y">>

XApiKeyTitle == <<"X","-","A","p","i","-","K","e","y">>

\* headers.get(name)
HeaderGet(headers, name) ==
    IF name \in DOMAIN headers THEN Str(headers[name]) ELSE None

KeyShape(s) == Len(s) >= KeyMinLen /\ Len(s) <= KeyMaxLen /\ \A i \in 1..Len(s) : s[i] \in Alnum

\* re.match(r'^[a-zA-Z0-9]{20,50}$', s): '$' also matches just before a
\* newline that ends the text
KeyPatternMatches(s) ==
    \/ KeyShape(s)
    \/ Len(s) > 0 /\ s[Len(s)] = "\n" /\ KeyShape(SubSeq(s, 1, Len(s) - 1))


\* validate_api_key on the headers map event.get("headers", {}) gave it
validate_api_key(headers) ==
    LET api_key == Or(HeaderGet(headers, XApiKeyLower), HeaderGet(headers, XApiKeyTitle))
    IN  IF ~Truthy(api_key)
        THEN [ok |-> FALSE, msg |-> "Missing API key in request headers"]
        ELSE IF ~KeyPatternMatches(api_key.s)
        THEN [ok |-> FALSE, msg |-> "Invalid API key format"]
        ELSE [ok |-> TRUE, msg |-> "Valid API key"]

(***************************************************************************)
(* validate_question                                                       *)
(***************************************************************************)
MinQuestionLen == 3

MaxQuestionLen == 500

\* r'import\s+os'
MatchesImportOs(s) ==
    \E i \in 1..Len(s) :
        /\ At(s, <<"i","m","p","o","r","t">>, i)
        /\ \E k \in 1..(Len(s) - i - 5) :
              /\ \A j \in (i + 6)..(i + 6 + k - 1) : s[j] \in WhiteSpace
              /\ At(s, <<"o","s">>, i + 6 + k)

suspicious_patterns ==
    { <<"<","s","c","r","i","p","t">>,
      <<"j","a","v","a","s","c","r","i","p","t",":">>,
      <<"e","v","a","l","(">>,
      <<"e","x","e","c","(">>,
      <<"_","_","i","m","p","o","r","t","_","_">> }

Suspicious(s) ==
    LET low == LowerText(s)
    IN  (\E p \in suspicious_patterns : Contains(low, p)) \/ MatchesImportOs(low)


validate_question(q) ==
    IF ~Truthy(q) THEN [ok |-> FALSE, msg |-> "Question parameter is required"]
    ELSE IF q.t # "str" THEN [ok |-> FALSE, msg |-> "Question must be a string"]
    ELSE LET s == strip(q.s)
         IN  IF Len(s) < MinQuestionLen
             THEN [ok |-> FALSE, msg |-> "Question must be at least 3 characters long"]
             ELSE IF Len(s) > MaxQuestionLen
             THEN [ok |-> FALSE, msg |-> "Question must be less than 500 characters"]
             ELSE IF Suspicious(s)
             THEN [ok |-> FALSE, msg |-> "Question contains prohibited content"]
             ELSE [ok |-> TRUE, msg |-> "Valid question"]

(***************************************************************************)
(* Requests.  event.headers is absent, null, some text or a map from       *)
(* header names to values; event.body is absent, a decoded value or a text *)
(* (with what json.loads makes of it: ok = FALSE is JSONDecodeError).      *)
(* A decoded value is [t, hasq, q]: its type and, for a dict, whether it   *)
(* has the key "question" and the value under it.                          *)
(***************************************************************************)
Json(t, hasq, q) == [t |-> t, hasq |-> hasq, q |-> q]

Headers(t, m) == [t |-> t, m |-> m]

Body(t, ok, v) == [t |-> t, ok |-> ok, v |-> v]

\* event.get("headers", {}) once it is known to be a map
HeadersOf(ev) == IF ev.headers.t = "map" THEN ev.headers.m ELSE <<>>

(***************************************************************************)
(* Retrieved documents: kind is "map", "null" or "text" (what the record   *)
(* is); meta says whether 'metadata' is absent, null or a map; text and    *)
(* title say whether the metadata has those keys; dist says whether        *)
(* 'distance' is absent, a number, null or a non-numeric text; d is the    *)
(* distance in thousandths.                                                *)
(***************************************************************************)
Doc(kind, meta, text, title, dist, d) ==
    [kind |-> kind, meta |-> meta, text |-> text, title |-> title, dist |-> dist, d |-> d]

TopK == 3

(***************************************************************************)
(* create_response                                                         *)
(***************************************************************************)
ResponseHeaders ==
    [ContentType |-> "application/json",
     AccessControlAllowOrigin |-> "*",
     AccessControlAllowHeaders |-> "Content-Type,X-Api-Key",
     AccessControlAllowMethods |-> "POST, OPTIONS",
     XContentTypeOptions |-> "nosniff",
     XFrameOptions |-> "DENY",
     XXSSProtection |-> "1; mode=block"]

create_response(status_code, body_dict) ==
    [statusCode |-> status_code, headers |-> ResponseHeaders, body |-> body_dict]

\* A catch-all that returns str(e) to the caller.
InternalErrorLeaks ==
    create_response(500,
        [error |-> "Internal server error",
         message |-> <<"'NoneType' object has no attribute 'get'">>])

\* the catch-all of the handler (lines 318-326)
InternalError ==
    create_response(500,
        [error |-> "Internal server error",
         message |-> <<"An unexpected error occurred. Please try again later.">>])

(***************************************************************************)
(* The gateways.  An outcome is what the remote side does; the result is   *)
(* [raised, msg, docs / text]: raised is "none", "RuntimeError" or the     *)
(* name of another exception that leaves the function; msg is str(e) as a  *)
(* sequence of parts, so that an f-string keeps the text it embeds.        *)
(***************************************************************************)
EmbedOutcomes == {"ok", "client_error", "auth", "throttling", "validation", "network"}

\* str(e) of the exception the remote call or the client constructor raised
ExcText(o) ==
    CASE o = "client_error" -> "NoRegionError: You must specify a region."
      [] o = "auth"         -> "AccessDeniedException: not authorized to perform bedrock:InvokeModel"
      [] o = "throttling"   -> "ThrottlingException: Too many requests"
      [] o = "validation"   -> "ValidationException: Malformed input request"
      [] o = "network"      -> "EndpointConnectionError: Could not connect to the endpoint URL"
      [] o = "other"        -> "InternalServerException: internal failure"
      [] OTHER              -> ""

RawTexts == {ExcText(o) : o \in {"client_error", "auth", "throttling", "validation", "network", "other"}}

Raised(kind, msg) == [raised |-> kind, msg |-> msg]

\* query_vectors, lines 28-41
embed(o) ==
    IF o = "ok" THEN Raised("none", <<>>)
    ELSE Raised("RuntimeError", <<"Failed to generate embedding: ", ExcText(o)>>)

SearchOutcomes == {"ok", "client_error", "not_found", "validation", "other"}

\* query_vectors, lines 43-67.  When boto3.client raises, s3vectors_client
\* is unbound while the except clauses are matched: evaluating
\* s3vectors_client.exceptions raises UnboundLocalError, which leaves the
\* function in place of the RuntimeError.
search(o) ==
    CASE o = "ok"           -> Raised("none", <<>>)
      [] o = "client_error" -> Raised("UnboundLocalError", <<>>)
      [] o = "not_found"    -> Raised("RuntimeError", <<"Vector database not initialised">>)
      [] o = "validation"   -> Raised("RuntimeError", <<"Invalid query format">>)
      [] OTHER              -> Raised("RuntimeError", <<"Vector query failed: ", ExcText(o)>>)

GenOutcomes ==
    {"results", "results_no_text", "top_level_text", "no_text", "bad_json",
     "client_error", "throttling", "validation", "other"}

\* the condition of the list comprehension of lines 78-82 on one document;
\* "TypeError" when 'in' is applied to None
HasText(doc) ==
    CASE doc.kind = "null" -> "TypeError"
      [] doc.kind = "text" -> "no"
      [] doc.meta = "absent" -> "no"
      [] doc.meta = "null" -> "TypeError"
      [] OTHER -> IF doc.text THEN "yes" ELSE "no"

Generated(raised, text, invoked, outcome) ==
    [raised |-> raised, text |-> text, invoked |-> invoked, outcome |-> outcome]

\* generate_response, lines 70-140.  An exception raised before
\* bedrock_client is bound (while the prompt is built, or by boto3.client)
\* meets except clauses that read bedrock_client.exceptions: matching them
\* raises UnboundLocalError, which leaves the function.  invoked says
\* whether invoke_model was called; outcome names what happened.
generate_response(docs, o) ==
    IF docs = <<>>
    THEN Generated("none", "No relevant context found for your question.", FALSE, "no_docs")
    ELSE IF \E i \in 1..Len(docs) : HasText(docs[i]) = "TypeError"
    THEN Generated("UnboundLocalError", "", FALSE, "prompt_error")
    ELSE IF \A i \in 1..Len(docs) : HasText(docs[i]) = "no"
    THEN Generated("none", "Context documents are malformed or empty.", FALSE, "no_context")
    ELSE CASE o = "client_error"    -> Generated("UnboundLocalError", "", FALSE, o)
           [] o = "throttling"      -> Generated("RuntimeError", "Service temporarily unavailable due to high demand", TRUE, o)
           [] o = "validation"      -> Generated("RuntimeError", "Invalid request format", TRUE, o)
           [] o = "other"           -> Generated("RuntimeError", "Failed to generate response", TRUE, o)
           [] o = "bad_json"        -> Generated("RuntimeError", "Failed to generate response", TRUE, o)
           [] o = "results_no_text" -> Generated("RuntimeError", "Failed to generate response", TRUE, o)
           [] o = "results"         -> Generated("none", "generated text", TRUE, o)
           [] o = "top_level_text"  -> Generated("none", "top-level text", TRUE, o)
           [] OTHER                 -> Generated("none", "No response generated", TRUE, o)

(***************************************************************************)
(* The handler is idle while a pure function is exercised on its own.      *)
(***************************************************************************)
NoEvent == [httpMethod |-> "none"]

NoResponse == [statusCode |-> 0]

HandlerIdle ==
    /\ event = NoEvent
    /\ context = "none"
    /\ pc = "idle"
    /\ calls = <<>>
    /\ request = None
    /\ question = None
    /\ context_docs = <<>>
    /\ answer = ""
    /\ response = NoResponse

(***************************************************************************)
(* sanitise_input on its own: every text up to MaxLen characters over an   *)
(* alphabet with both angle brackets, a letter, a blank, a kept and a      *)
(* removed punctuation mark and the underscore, and the documented example.*)
(***************************************************************************)
MaxLen == 5

SanAlphabet == {"<", ">", "a", " ", "(", "_", "."}

Texts(n) == UNION {[1..k -> SanAlphabet] : k \in 0..n}

\* "<script>alert(1)</script>hello"
ExampleText ==
    <<"<","s","c","r","i","p","t",">","a","l","e","r","t","(","1",")",
      "<","/","s","c","r","i","p","t",">","h","e","l","l","o">>

ExampleSanitised == <<"a","l","e","r","t","1","h","e","l","l","o">>

InitSanitise ==
    /\ fnIn \in Texts(MaxLen) \cup {ExampleText}
    /\ fnOut = <<>>
    /\ fnPc = "input"
    /\ HandlerIdle

SanitiseOnce ==
    /\ fnPc = "input"
    /\ fnOut' = <<sanitise_input(fnIn)>>
    /\ fnPc' = "once"
    /\ UNCHANGED <<fnIn, handlerVars>>

SanitiseAgain ==
    /\ fnPc = "once"
    /\ fnOut' = Append(fnOut, sanitise_input(fnOut[1]))
    /\ fnPc' = "twice"
    /\ UNCHANGED <<fnIn, handlerVars>>

NextSanitise == SanitiseOnce \/ SanitiseAgain

SpecSanitise == InitSanitise /\ [][NextSanitise]_vars

HasTag(s) == \E i \in 1..Len(s) : \E j \in (i + 1)..Len(s) : s[i] = "<" /\ s[j] = ">"

Trimmed(s) == s = <<>> \/ (s[1] \notin WhiteSpace /\ s[Len(s)] \notin WhiteSpace)

\* C7 as stated: the output has no <...>, only alphanumerics, whitespace and
\* the seven marks . ? ! , - ' " (so no underscore), no outer whitespace,
\* and the example gives "alert1hello".
C7_AsClaimed ==
    fnPc = "once" =>
        /\ ~HasTag(fnOut[1])
        /\ \A i \in 1..Len(fnOut[1]) :
               fnOut[1][i] \in Alnum \cup WhiteSpace \cup KeptPunct
        /\ Trimmed(fnOut[1])
        /\ (fnIn = ExampleText => fnOut[1] = ExampleSanitised)

\* C7 amended: the output has no <...>, only alphanumerics, the underscore,
\* whitespace and the seven marks . ? ! , - ' " (parentheses, colon and the
\* angle brackets are removed, the underscore is kept), no outer whitespace,
\* and the example gives "alert1hello".
C7_SanitiseOutput ==
    fnPc = "once" =>
        /\ ~HasTag(fnOut[1])
        /\ \A i \in 1..Len(fnOut[1]) :
               fnOut[1][i] \in Alnum \cup {"_"} \cup WhiteSpace \cup KeptPunct
        /\ Trimmed(fnOut[1])
        /\ (fnIn = ExampleText => fnOut[1] = ExampleSanitised)
        /\ (fnIn = <<"a", "_", "(", "b">> => fnOut[1] = <<"a", "_", "b">>)

\* a text with a tag, an underscore, a removed mark and outer whitespace
\* has been sanitised to a text that keeps the underscore
C7_Witness ==
    /\ fnPc = "once"
    /\ fnIn = <<" ", "<", ">", "_", "(">>
    /\ fnOut[1] = <<"_">>

\* C8: sanitise_input(sanitise_input(x)) = sanitise_input(x)
C8_Idempotent == fnPc = "twice" => fnOut[2] = fnOut[1]

\* the second pass ran on the result of a text with nested, unbalanced
\* brackets and leading whitespace, and the first pass changed that text
C8_Witness ==
    /\ fnPc = "twice"
    /\ fnIn = <<" ", "<", "<", "a", ">">>
    /\ fnOut[1] # fnIn

(***************************************************************************)
(* validate_question on its own: None, numbers, booleans, lists, dicts and *)
(* texts whose trimmed length sits on each side of both limits, with and   *)
(* without outer whitespace and deny-listed patterns.                      *)
(***************************************************************************)
MaxPad == 1

Pads == {Rep(c, k) : c \in {" ", "\n"}, k \in 0..MaxPad}

EdgeLens ==
    {0, 1, MinQuestionLen - 1, MinQuestionLen, MinQuestionLen + 1,
     MaxQuestionLen - 1, MaxQuestionLen, MaxQuestionLen + 1}

PlainTexts == {l \o Rep(c, n) \o r : l \in Pads, r \in Pads, c \in {"a", "("}, n \in EdgeLens}

UpperText(s) ==
    [i \in 1..Len(s) |->
        IF s[i] \in Lowercase
        THEN UpperSeq[CHOOSE k \in 1..Len(LowerSeq) : LowerSeq[k] = s[i]]
        ELSE s[i]]

ImportTexts ==
    { <<"i","m","p","o","r","t"," ","o","s">>,
      <<"i","m","p","o","r","t"," ","\t","\n","o","s">>,
      <<"i","m","p","o","r","t","o","s">>,
      <<"i","m","p","o","r","t"," ","x","o","s">> }

PatternTexts ==
    LET base == suspicious_patterns \cup ImportTexts
        both == base \cup {UpperText(p) : p \in base}
    IN  both \cup {<<"a", " ">> \o p \o <<"?">> : p \in both}
             \cup {p \o Rep("a", MaxQuestionLen) : p \in base}

QuestionValues ==
    {None, Str(<<>>)}
        \cup {V("int", n, <<>>) : n \in {0, 5}}
        \cup {V("bool", n, <<>>) : n \in {0, 1}}
        \cup {V("list", n, <<>>) : n \in {0, 2}}
        \cup {V("dict", n, <<>>) : n \in {0, 1}}
        \cup {Str(s) : s \in PlainTexts \cup PatternTexts}

InitValidate ==
    /\ fnIn \in QuestionValues
    /\ fnOut = <<>>
    /\ fnPc = "input"
    /\ HandlerIdle

ValidateQuestion ==
    /\ fnPc = "input"
    /\ fnOut' = <<validate_question(fnIn)>>
    /\ fnPc' = "once"
    /\ UNCHANGED <<fnIn, handlerVars>>

NextValidate == ValidateQuestion

SpecValidate == InitValidate /\ [][NextValidate]_vars

\* The five rules as C6 states them: 1 missing or empty (None, "", [], {}),
\* 2 not a string, 3 trimmed length < 3, 4 trimmed length > 500,
\* 5 a deny-listed pattern; the first violated rule gives the message.
ClaimedValidation(q) ==
    IF q.t = "none" \/ (q.t \in {"str", "list", "dict"} /\ ~Truthy(q))
    THEN [ok |-> FALSE, msg |-> "Question parameter is required"]
    ELSE IF q.t # "str" THEN [ok |-> FALSE, msg |-> "Question must be a string"]
    ELSE IF Len(strip(q.s)) < 3
    THEN [ok |-> FALSE, msg |-> "Question must be at least 3 characters long"]
    ELSE IF Len(strip(q.s)) > 500
    THEN [ok |-> FALSE, msg |-> "Question must be less than 500 characters"]
    ELSE IF Suspicious(strip(q.s))
    THEN [ok |-> FALSE, msg |-> "Question contains prohibited content"]
    ELSE [ok |-> TRUE, msg |-> "Valid question"]

\* C6: validate_question returns the error of the first violated rule in
\* the order 1..5 and succeeds exactly when none is violated; the number 0
\* and false get "Question must be a string".
C6_FirstViolatedRule == fnPc = "once" => fnOut[1] = ClaimedValidation(fnIn)

(***************************************************************************)
(* validate_api_key on its own: header maps of up to MaxHeaders entries    *)
(* under three casings of the name, with values on each side of the shape. *)
(***************************************************************************)
MaxHeaders == 2

XApiKeyUpper == <<"X","-","A","P","I","-","K","E","Y">>

KeyNames == {XApiKeyLower, XApiKeyTitle, XApiKeyUpper}

\* a 32-character alphanumeric key
Key32 == Rep("a", 10) \o Rep("Z", 10) \o Rep("7", 12)

KeyTexts ==
    { <<>>, <<"a","b","c">>, Key32,
      Rep("a", KeyMinLen - 1), Rep("a", KeyMinLen),
      Rep("9", KeyMaxLen), Rep("9", KeyMaxLen + 1),
      Rep("a", KeyMinLen) \o <<"\n">>,
      Rep("a", KeyMinLen) \o <<"-">>,
      Rep("a", KeyMinLen) \o <<"_">> }

HeaderMaps ==
    UNION {[names -> KeyTexts] : names \in {S \in SUBSET KeyNames : Cardinality(S) <= MaxHeaders}}

InitKey ==
    /\ fnIn \in HeaderMaps
    /\ fnOut = <<>>
    /\ fnPc = "input"
    /\ HandlerIdle

ValidateApiKey ==
    /\ fnPc = "input"
    /\ fnOut' = <<validate_api_key(fnIn)>>
    /\ fnPc' = "once"
    /\ UNCHANGED <<fnIn, handlerVars>>

NextKey == ValidateApiKey

SpecKey == InitKey /\ [][NextKey]_vars

\* the values sent under any letter-casing of x-api-key
KeyValuesAnyCase(headers) ==
    {headers[k] : k \in {k \in DOMAIN headers : LowerText(k) = XApiKeyLower}}

Alnum20To50(s) == Len(s) >= 20 /\ Len(s) <= 50 /\ \A i \in 1..Len(s) : s[i] \in Alnum

\* C5: the key is found under any letter-casing of x-api-key; the check
\* succeeds exactly when the value is 20 to 50 alphanumeric characters; an
\* absent header gives "Missing API key in request headers", a present
\* value of another shape gives "Invalid API key format".
C5_AnyCasingExactShape ==
    fnPc = "once" =>
        LET sent == KeyValuesAnyCase(fnIn)
        IN  /\ sent = {} =>
                fnOut[1] = [ok |-> FALSE, msg |-> "Missing API key in request headers"]
            /\ (sent # {} /\ \A v \in sent : Alnum20To50(v)) =>
                fnOut[1] = [ok |-> TRUE, msg |-> "Valid API key"]
            /\ (sent # {} /\ \A v \in sent : ~Alnum20To50(v)) =>
                fnOut[1] = [ok |-> FALSE, msg |-> "Invalid API key format"]

(***************************************************************************)
(* The handler, one invocation: pc is the position in handler(), calls the *)
(* steps it has run, in order.                                             *)
(***************************************************************************)
Methods == {"OPTIONS", "POST", "GET"}

HandlerKeyMaps ==
    { <<>>,
      XApiKeyLower :> Key32,
      XApiKeyTitle :> Key32,
      XApiKeyUpper :> Key32,
      XApiKeyLower :> <<"a","b","c">>,
      XApiKeyTitle :> (Rep("a", KeyMaxLen) \o <<"!">>) }

HeaderShapes ==
    {Headers("absent", <<>>), Headers("null", <<>>), Headers("text", <<>>)}
        \cup {Headers("map", m) : m \in HandlerKeyMaps}

\* "Who kills Claudius?"
WhoKills ==
    <<"W","h","o"," ","k","i","l","l","s"," ","C","l","a","u","d","i","u","s","?">>

HandlerQuestions ==
    { None, Str(<<>>), V("int", 0, <<>>), V("list", 1, <<>>),
      Str(<<"a","b">>),
      Str(WhoKills),
      Str(<<" ","a","<","b",">","c","("," ">>),
      Str(<<"(","(","(">>),
      Str(<<"<","s","c","r","i","p","t",">">>),
      Str(<<"_","_","i","m","p","<","b",">","o","r","t","_","_">>) }

JsonValues ==
    {Json("dict", FALSE, None)}
        \cup {Json("dict", TRUE, q) : q \in HandlerQuestions}
        \cup {Json(ty, FALSE, None) : ty \in {"list", "int", "str", "none"}}

Bodies ==
    {Body("absent", TRUE, Json("none", FALSE, None)), Body("text", FALSE, Json("none", FALSE, None))}
        \cup {Body("text", TRUE, v) : v \in JsonValues}
        \cup {Body("value", TRUE, v) :
                 v \in {Json("none", FALSE, None), Json("int", FALSE, None),
                        Json("dict", FALSE, None), Json("dict", TRUE, Str(WhoKills))}}

Events == [httpMethod : Methods, headers : HeaderShapes, body : Bodies]

Contexts == {"context", "null"}

DocShapes ==
    { Doc("map", "map", TRUE, TRUE, "number", 200),
      Doc("map", "map", TRUE, FALSE, "absent", 0),
      Doc("map", "map", FALSE, TRUE, "text", 0),
      Doc("map", "map", TRUE, TRUE, "null", 0),
      Doc("map", "absent", FALSE, FALSE, "number", 1500),
      Doc("map", "null", FALSE, FALSE, "number", 200),
      Doc("null", "absent", FALSE, FALSE, "absent", 0),
      Doc("text", "absent", FALSE, FALSE, "absent", 0) }

DocLists == UNION {[1..k -> DocShapes] : k \in 0..TopK}

FnIdle == fnIn = <<>> /\ fnOut = <<>> /\ fnPc = "idle"

Init ==
    /\ event \in Events
    /\ context \in Contexts
    /\ pc = "log"
    /\ calls = <<>>
    /\ request = None
    /\ question = None
    /\ context_docs = <<>>
    /\ answer = ""
    /\ response = NoResponse
    /\ FnIdle

\* one entry of calls: the step, and for a gateway what the remote side did
Call(step, outcome) == [step |-> step, outcome |-> outcome]

Steps(cs) == {cs[i].step : i \in 1..Len(cs)}

\* return create_response(...), or the catch-all's return
Return(resp) ==
    /\ response' = resp
    /\ pc' = "done"

Goto(next) ==
    /\ pc' = next
    /\ UNCHANGED response

\* lines 219-226: event.get("headers", {}).items() needs a map
LogRequest ==
    /\ pc = "log"
    /\ calls' = Append(calls, Call("log", ""))
    /\ IF event.headers.t \in {"null", "text"}
       THEN Return(InternalError)
       ELSE Goto("cors")
    /\ UNCHANGED <<event, context, request, question, context_docs, answer, fnVars>>

\* lines 228-230
CorsPreflight ==
    /\ pc = "cors"
    /\ IF event.httpMethod = "OPTIONS"
       THEN Return(create_response(200, [message |-> <<"CORS preflight response">>]))
       ELSE Goto("key")
    /\ UNCHANGED <<event, context, calls, request, question, context_docs, answer, fnVars>>

\* A key check that reports the failure but goes on.
KeyCheckGoesOn ==
    /\ pc = "key"
    /\ calls' = Append(calls, Call("validate_api_key", ""))
    /\ Goto("parse")
    /\ UNCHANGED <<event, context, request, question, context_docs, answer, fnVars>>

\* lines 232-236
KeyCheck ==
    /\ pc = "key"
    /\ calls' = Append(calls, Call("validate_api_key", ""))
    /\ LET r == validate_api_key(HeadersOf(event))
       IN  IF ~r.ok
           THEN Return(create_response(401, [error |-> "Unauthorised", message |-> <<r.msg>>]))
           ELSE Goto("parse")
    /\ UNCHANGED <<event, context, request, question, context_docs, answer, fnVars>>

\* lines 238-247: json.loads of a text body, else the body as it is ({} when
\* absent); then request.get("question"), which needs a dict
BodyParse ==
    /\ pc = "parse"
    /\ calls' = Append(calls, Call("parse_body", ""))
    /\ IF event.body.t = "text" /\ ~event.body.ok
       THEN /\ Return(create_response(400, [error |-> "Invalid JSON in request body"]))
            /\ UNCHANGED <<request, question>>
       ELSE LET req == IF event.body.t = "absent" THEN Json("dict", FALSE, None) ELSE event.body.v
            IN  /\ request' = req
                /\ IF req.t # "dict"
                   THEN Return(InternalError) /\ UNCHANGED question
                   ELSE /\ question' = (IF req.hasq THEN req.q ELSE None)
                        /\ Goto("validate")
    /\ UNCHANGED <<event, context, context_docs, answer, fnVars>>

\* lines 249-252
QuestionValidate ==
    /\ pc = "validate"
    /\ calls' = Append(calls, Call("validate_question", ""))
    /\ LET r == validate_question(question)
       IN  IF ~r.ok
           THEN Return(create_response(400, [error |-> r.msg]))
           ELSE Goto("sanitise")
    /\ UNCHANGED <<event, context, request, question, context_docs, answer, fnVars>>

\* lines 254-256
Sanitise ==
    /\ pc = "sanitise"
    /\ calls' = Append(calls, Call("sanitise_input", ""))
    /\ question' = Str(sanitise_input(question.s))
    /\ Goto("embed")
    /\ UNCHANGED <<event, context, request, context_docs, answer, fnVars>>

\* lines 259-266 on what a gateway raised: RuntimeError is caught there,
\* anything else reaches the catch-all
Unavailable(error, r) ==
    IF r.raised = "RuntimeError"
    THEN create_response(503, [error |-> error, message |-> r.msg])
    ELSE InternalError

\* query_vectors, first half (lines 28-41), under the handler's try
Embed ==
    /\ pc = "embed"
    /\ \E o \in EmbedOutcomes :
          LET r == embed(o)
          IN  /\ calls' = Append(calls, Call("embed", o))
              /\ IF r.raised = "none"
                 THEN Goto("search")
                 ELSE Return(Unavailable("Service temporarily unavailable", r))
    /\ UNCHANGED <<event, context, request, question, context_docs, answer, fnVars>>

\* query_vectors, second half (lines 43-67), under the handler's try
Search ==
    /\ pc = "search"
    /\ \E o \in SearchOutcomes :
          LET r == search(o)
          IN  /\ calls' = Append(calls, Call("search", o))
              /\ IF r.raised = "none"
                 THEN /\ context_docs' \in DocLists
                      /\ Goto("docs")
                 ELSE /\ Return(Unavailable("Service temporarily unavailable", r))
                      /\ UNCHANGED context_docs
    /\ UNCHANGED <<event, context, request, question, answer, fnVars>>

\* A handler that has lost the short-circuit on an empty result.
NoDocsNever(docs) == FALSE

\* not context_docs (line 268)
NoDocs(docs) == docs = <<>>

\* lines 268-277
EmptyResults ==
    /\ pc = "docs"
    /\ NoDocs(context_docs)
    /\ Return(create_response(200,
          [answer |-> "I couldn't find relevant information about your question in my knowledge base. Please try rephrasing your question about Hamlet.",
           sources |-> <<>>,
           metadata |-> [question_length |-> Len(question.s),
                         sources_found |-> 0,
                         processing_successful |-> TRUE]]))
    /\ UNCHANGED <<event, context, calls, request, question, context_docs, answer, fnVars>>

\* lines 279-287
Generate ==
    /\ pc = "docs"
    /\ ~NoDocs(context_docs)
    /\ \E o \in GenOutcomes :
          LET r == generate_response(context_docs, o)
          IN  /\ calls' = (IF r.invoked
                           THEN calls \o <<Call("generate_response", r.outcome), Call("invoke_model", r.outcome)>>
                           ELSE Append(calls, Call("generate_response", r.outcome)))
              /\ IF r.raised = "none"
                 THEN answer' = r.text /\ Goto("sources")
                 ELSE /\ Return(Unavailable("Response generation failed",
                                            Raised(r.raised, <<r.text>>)))
                      /\ UNCHANGED answer
    /\ UNCHANGED <<event, context, request, question, context_docs, fnVars>>

\* lines 293-302 on one document: "AttributeError" when .get is applied to
\* something that is no map (it is not among the caught exceptions),
\* "skip" on the TypeError or ValueError of float(), else the source
SourceOf(doc) ==
    CASE doc.kind # "map" -> [how |-> "AttributeError"]
      [] doc.meta = "null" -> [how |-> "AttributeError"]
      [] doc.dist \in {"null", "text"} -> [how |-> "skip"]
      [] OTHER ->
           LET dist == IF doc.dist = "absent" THEN 0 ELSE doc.d
           IN  [how |-> "source",
                title |-> IF doc.meta = "map" /\ doc.title THEN "title" ELSE "Unknown",
                distance |-> dist,
                relevance_score |-> 1000 - dist]

RECURSIVE SourcesOf(_)
SourcesOf(docs) ==
    IF docs = <<>> THEN <<>>
    ELSE LET s == SourceOf(Head(docs))
         IN  IF s.how = "source"
             THEN <<[title |-> s.title, distance |-> s.distance,
                     relevance_score |-> s.relevance_score]>> \o SourcesOf(Tail(docs))
             ELSE SourcesOf(Tail(docs))

\* lines 289-316
BuildSources ==
    /\ pc = "sources"
    /\ calls' = Append(calls, Call("build_sources", ""))
    /\ IF \/ \E i \in 1..Len(context_docs) : SourceOf(context_docs[i]).how = "AttributeError"
          \/ context = "null"
       THEN Return(InternalError)
       ELSE Return(create_response(200,
              [answer |-> answer,
               sources |-> SourcesOf(context_docs),
               metadata |-> [question_length |-> Len(question.s),
                             sources_found |-> Len(context_docs),
                             processing_successful |-> TRUE,
                             timestamp |-> "now",
                             request_id |-> "aws_request_id"]]))
    /\ UNCHANGED <<event, context, request, question, context_docs, answer, fnVars>>

Next ==
    \/ LogRequest
    \/ CorsPreflight
    \/ KeyCheck
    \/ BodyParse
    \/ QuestionValidate
    \/ Sanitise
    \/ Embed
    \/ Search
    \/ EmptyResults
    \/ Generate
    \/ BuildSources

Spec == Init /\ [][Next]_vars

(***************************************************************************)
(* Properties of the handler.                                              *)
(***************************************************************************)
Done == pc = "done"

\* the outcome the remote side gave the step, "" when the step has not run
OutcomeOf(step) ==
    IF \E i \in 1..Len(calls) : calls[i].step = step
    THEN calls[CHOOSE i \in 1..Len(calls) : calls[i].step = step].outcome
    ELSE ""

Ran(step) == step \in Steps(calls)

HasMessage == "message" \in DOMAIN response.body

\* C1: when the embedding call of a POST request fails, for any cause, the
\* response is 503 and its body holds no raw exception text of that call.
C1_EmbeddingFailureHidden ==
    (Done /\ event.httpMethod = "POST" /\ Ran("embed") /\ OutcomeOf("embed") # "ok") =>
        /\ response.statusCode = 503
        /\ HasMessage
        /\ \A i \in 1..Len(response.body.message) : response.body.message[i] \notin RawTexts

\* a body that is missing (absent or null), is no valid JSON, or decodes to
\* a value that yields no question field
NoQuestionField(ev) ==
    \/ ev.body.t = "absent"
    \/ ev.body.t = "text" /\ ~ev.body.ok
    \/ ev.body.t \in {"text", "value"} /\ ev.body.ok /\ (ev.body.v.t # "dict" \/ ~ev.body.v.hasq)

\* C2: a POST request with an accepted key whose body is missing, is no
\* valid JSON or yields no question field is answered 400, never 500; a
\* text that is no valid JSON gives "Invalid JSON in request body".
C2_BadBodyIs400 ==
    (Done /\ event.httpMethod = "POST" /\ Ran("parse_body") /\ NoQuestionField(event)) =>
        /\ response.statusCode = 400
        /\ (event.body.t = "text" /\ ~event.body.ok) =>
               response.body = [error |-> "Invalid JSON in request body"]

AfterCors == {"validate_api_key", "parse_body", "validate_question", "sanitise_input",
              "embed", "search", "generate_response", "invoke_model", "build_sources"}

\* C3: every OPTIONS request is answered 200 with the preflight message,
\* whatever its headers and body are, and runs neither the key check, the
\* body parse, the question validation nor an upstream call.
C3_OptionsAlways200 ==
    event.httpMethod = "OPTIONS" =>
        /\ Steps(calls) \cap AfterCors = {}
        /\ Done => response = create_response(200, [message |-> <<"CORS preflight response">>])

AfterKey == AfterCors \ {"validate_api_key"}

\* the key check has run and returned a failure
KeyCheckFailed == Ran("validate_api_key") /\ ~validate_api_key(HeadersOf(event)).ok

\* C4: a non-OPTIONS request whose key check fails is answered 401 with the
\* key checker's reason, and nothing after the key check runs: no body
\* parse, no question validation, no embed, search or generate call.
C4_KeyFailureStops ==
    (event.httpMethod # "OPTIONS" /\ KeyCheckFailed) =>
        /\ Done
        /\ response = create_response(401,
              [error |-> "Unauthorised",
               message |-> <<validate_api_key(HeadersOf(event)).msg>>])
        /\ Steps(calls) \cap AfterKey = {}

\* a POST whose key arrives under X-API-KEY has been refused as missing
\* while its body holds a valid question
C4_Witness ==
    /\ Done
    /\ event.httpMethod = "POST"
    /\ event.headers = Headers("map", XApiKeyUpper :> Key32)
    /\ event.body = Body("text", TRUE, Json("dict", TRUE, Str(WhoKills)))
    /\ response.statusCode = 401
    /\ response.body.message = <<"Missing API key in request headers">>

SearchFailures == {"client_error", "not_found", "validation", "other"}

GenerationFailures ==
    {"prompt_error", "client_error", "throttling", "validation", "other",
     "bad_json", "results_no_text"}

\* the reason C9 fixes for each failure class
ClaimedReason(step, o) ==
    IF step = "search"
    THEN CASE o = "not_found"  -> "Vector database not initialised"
           [] o = "validation" -> "Invalid query format"
           [] OTHER            -> "Vector query failed: "
    ELSE CASE o = "throttling" -> "Service temporarily unavailable due to high demand"
           [] o = "validation" -> "Invalid request format"
           [] OTHER            -> "Failed to generate response"

\* C9: every failure of the search step or of the generation step,
\* including a failure to obtain the client and a failure while the prompt
\* is built, is answered 503, never 500, with the reason of its class.
C9_UpstreamFailureIs503 ==
    /\ (Done /\ Ran("search") /\ OutcomeOf("search") \in SearchFailures) =>
          /\ response.statusCode = 503
          /\ response.body.error = "Service temporarily unavailable"
          /\ response.body.message[1] = ClaimedReason("search", OutcomeOf("search"))
    /\ (Done /\ Ran("generate_response") /\ OutcomeOf("generate_response") \in GenerationFailures) =>
          /\ response.statusCode = 503
          /\ response.body.error = "Response generation failed"
          /\ response.body.message[1] = ClaimedReason("generate", OutcomeOf("generate_response"))

CannedAnswer ==
    "I couldn't find relevant information about your question in my knowledge base. Please try rephrasing your question about Hamlet."

SearchGaveNothing == Ran("search") /\ OutcomeOf("search") = "ok" /\ pc # "search" /\ context_docs = <<>>

\* C10: a search that succeeds with zero documents is answered 200 with the
\* canned answer, no sources and sources_found = 0, and the generation
\* service is not invoked; the generation step runs only after a search
\* that returned at least one document.
C10_EmptySearchIsCanned ==
    /\ SearchGaveNothing =>
          /\ ~Ran("generate_response") /\ ~Ran("invoke_model")
          /\ pc \in {"docs", "done"}
          /\ Done =>
                /\ response.statusCode = 200
                /\ response.body.answer = CannedAnswer
                /\ response.body.sources = <<>>
                /\ response.body.metadata.sources_found = 0
    /\ (Ran("generate_response") \/ Ran("invoke_model")) =>
          /\ OutcomeOf("search") = "ok"
          /\ Len(context_docs) >= 1

\* the canned answer has been returned after an empty search
C10_Witness ==
    /\ Done
    /\ SearchGaveNothing
    /\ response.statusCode = 200
    /\ response.body.sources = <<>>

\* the source C11 gives for a document; only a map with a metadata map, a
\* title and a numeric distance has one
WellFormed(doc) ==
    doc.kind = "map" /\ doc.meta = "map" /\ doc.title /\ doc.dist = "number"

RECURSIVE ClaimedSources(_)
ClaimedSources(docs) ==
    IF docs = <<>> THEN <<>>
    ELSE IF WellFormed(Head(docs))
    THEN <<[title |-> "title", distance |-> Head(docs).d,
            relevance_score |-> 1000 - Head(docs).d]>> \o ClaimedSources(Tail(docs))
    ELSE ClaimedSources(Tail(docs))

\* C11: once an answer has been generated, each retrieved document maps to
\* {title, distance, relevance_score = 1 - distance}; a document with no or
\* null metadata, no title, no distance, a non-numeric distance, or that is
\* no map is skipped, and the response is 200 with the remaining sources.
C11_MalformedDocsSkipped ==
    (Done /\ Ran("build_sources") /\ context # "null") =>
        /\ response.statusCode = 200
        /\ response.body.sources = ClaimedSources(context_docs)

\* C12: every request ends with exactly one response, built by
\* create_response, with status 200, 400, 401, 503 or 500; a failure that
\* is no validation, auth or upstream error (headers or body that are no
\* map, a null context, an exception that is no RuntimeError) gives 500
\* with the fixed generic body, and the handler never stops without a
\* response.
C12_OneClassifiedResponse ==
    /\ Done \/ ENABLED Next
    /\ Done => ~ENABLED Next
    /\ (response # NoResponse) <=> Done
    /\ Done =>
          /\ response.statusCode \in {200, 400, 401, 503, 500}
          /\ response = create_response(response.statusCode, response.body)
          /\ response.headers.ContentType = "application/json"
          /\ response.statusCode = 500 =>
                response.body =
                    [error |-> "Internal server error",
                     message |-> <<"An unexpected error occurred. Please try again later.">>]
          /\ event.headers.t \in {"null", "text"} => response.statusCode = 500
          /\ (Ran("parse_body") /\ event.body.t = "value" /\ event.body.v.t # "dict") =>
                response.statusCode = 500
          /\ (Ran("build_sources") /\ context = "null") => response.statusCode = 500

\* a request with a null body and one with a null invocation context have
\* each been answered with the generic 500
C12_Witness ==
    /\ Done
    /\ response.statusCode = 500
    /\ \/ event.body = Body("value", TRUE, Json("none", FALSE, None)) /\ Ran("parse_body")
       \/ context = "null" /\ Ran("build_sources")

\* C13: the sanitised question the handler passes to the embedding call is
\* still accepted by validate_question (3 to 500 characters, no deny-listed
\* pattern).
C13_SanitisedStaysValid ==
    pc = "embed" => validate_question(question).ok

\* C14: in a 200 response that carries an answer, metadata.sources_found is
\* the number of entries of sources.
C14_SourcesFoundIsCount ==
    (Done /\ response.statusCode = 200 /\ "answer" \in DOMAIN response.body) =>
        response.body.metadata.sources_found = Len(response.body.sources)

====
